---- MODULE Spec2Model ----
(***************************************************************************)
(* Model of hicap_analysis/wells.py: the analytical response functions,    *)
(* the multi-year superposition in WellResponse._calc_depletion, the lazy  *)
(* memoised properties of WellResponse and Well, and Well.__init__.        *)
(*                                                                         *)
(* Representation of Python values                                         *)
(*   None / a value      : the empty sequence <<>> / the one-element       *)
(*                         sequence <<v>> (None, Some)                     *)
(*   an attribute that   : <<>> as well (baseyears and imageyears do not   *)
(*   does not exist yet    exist before _calc_depletion has run)           *)
(*   numpy 1-d array     : a sequence; 0-based position i is index i + 1   *)
(*   dict                : the sequence of its items, in insertion order,  *)
(*                         each item a record [key, val]                   *)
(*   object reference    : an index into the variable responses            *)
(*   float               : fixed point.  T and T_gpd_ft are in 1/100,      *)
(*                         S in 1/1000, apportionment in 1/100, dist, Q    *)
(*                         and times in units; depletion rates in 1/10^4   *)
(*   scipy.special.exp1  : not interpreted; a Theis drawdown is the record *)
(*                         of the operands exp1 and its factor are given   *)
(*   scipy.special.erfc  : the rational approximation 7.1.28 of Abramowitz *)
(*                         and Stegun (the polynomial _walton spells out)  *)
(***************************************************************************)
EXTENDS Integers, Sequences, FiniteSets, TLC

None == <<>>
Some(v) == <<v>>
Max(a, b) == IF a >= b THEN a ELSE b
Min(a, b) == IF a <= b THEN a ELSE b

(***************************************************************************)
(* Bounds of the model.                                                    *)
(***************************************************************************)
MaxYears == 2

(***************************************************************************)
(* Program constants.                                                      *)
(***************************************************************************)
DaysPerYear == 365
DefaultDepletionYears == 5
DefaultTheisTime == -9999
DefaultDeplPumpTime == -99999
WellDefaultDeplPumpTime == -9999
SecondsPerDay == 3600 * 24

(***************************************************************************)
(* Fixed-point arithmetic.                                                 *)
(***************************************************************************)
\* the units 1/J and the polynomial are held in
FxOne == 10 ^ 4
CoefOne == 10 ^ 7

\* a * b / s without overflowing a 32-bit product
MulFx(a, b, s) == (a \div s) * b + ((a % s) * b) \div s

RECURSIVE ISqrtIter(_, _)
ISqrtIter(n, x) ==
    LET y == (x + n \div x) \div 2
    IN  IF y >= x THEN x ELSE ISqrtIter(n, y)

\* floor of the square root (Newton, from a start above the root)
ISqrt(n) ==
    IF n < 2 THEN n
    ELSE IF n < 1024 THEN ISqrtIter(n, 32)
    ELSE IF n < 1048576 THEN ISqrtIter(n, 1024)
    ELSE ISqrtIter(n, 46340)

\* 1 / (1 + a1 G + ... + a6 G^6)^16 in 1/FxOne, G in 1/100; 0 from G = 6 on,
\* where the value (below 2e-17) is under the resolution
InvPoly16(G) ==
    IF G >= 600 THEN 0
    ELSE
      LET h5 == 2766 + MulFx(431, G, 100)
          h4 == 1520 + MulFx(h5, G, 100)
          h3 == 92705 + MulFx(h4, G, 100)
          h2 == 422820 + MulFx(h3, G, 100)
          h1 == 705231 + MulFx(h2, G, 100)
          P  == CoefOne + MulFx(h1, G, 100)
          R1 == (FxOne * FxOne) \div (P \div 1000)
          R2 == (R1 * R1) \div FxOne
          R4 == (R2 * R2) \div FxOne
          R8 == (R4 * R4) \div FxOne
      IN  (R8 * R8) \div FxOne

(***************************************************************************)
(* Response functions, each with the parameter order of its def.           *)
(***************************************************************************)

\* _theis: ZeroDivisionError when 4. * T * time is 0 (Python scalars)
_theis_raises(T, S, time, dist, Q) == 4 * T * time = 0

_theis(T, S, time, dist, Q) ==
    [f |-> "theis", Q |-> Q, T4pi |-> 4 * T,
     u_num |-> dist * dist * S, u_den |-> 4 * T * time]

\* _glover at one element: Q * erfc(sqrt(dist^2 S / (4 T time))); a time of 0
\* gives z = inf and erfc(inf) = 0
_glover(T, S, time, dist, Q) ==
    IF time = 0 THEN 0
    ELSE LET den == ((4 * T) \div 1000) * time
             z   == ISqrt((dist * dist * S) \div den)
         IN  Q * InvPoly16(z)

\* _walton at one element: a time of 0 gives G = inf, J = inf and 1/J = 0
_walton(T, S, dist, time, Q) ==
    LET G == IF dist > 0
             THEN IF time = 0 THEN 600
                  ELSE ISqrt((dist * dist * 10000)
                             \div (((535 * T) \div (100 * S)) * time))
             ELSE 0
    IN  (Q * InvPoly16(G)) \div SecondsPerDay

\* str.lower() on the method names in use
Lower(s) ==
    CASE s = "Theis" -> "theis"
      [] s = "Walton" -> "walton"
      [] s = "Glover" -> "glover"
      [] OTHER -> s

ALL_DD_METHODS == {"theis"}
ALL_DEPL_METHODS == {"glover", "walton"}

(***************************************************************************)
(* numpy: ranges, slices and slice assignment.                             *)
(***************************************************************************)

\* a variant of arange1 that counts from 0, as np.arange(stop - 1) does: C9
\* depends on the day indices starting at 1
arange_from_zero(stop) == [i \in 1..Max(stop - 1, 0) |-> i - 1]

\* np.arange(1, stop)
arange1(stop) == [i \in 1..Max(stop - 1, 0) |-> i]

\* np.zeros_like(a)
zeros_like(a) == [i \in 1..Len(a) |-> 0]

\* the position a bound k of a slice stands for in an array of length n
\* (a negative bound counts from the end; bounds are clipped)
SliceBound(k, n) == IF k < 0 THEN Max(n + k, 0) ELSE Min(k, n)

\* a[0:m]
SliceTo(a, m) == SubSeq(a, 1, SliceBound(m, Len(a)))

\* whether a[k:] = v raises ValueError: v has neither the slice's length nor
\* length 1 (which broadcasts)
SetSliceRaises(a, k, v) ==
    /\ Len(v) # Len(a) - SliceBound(k, Len(a))
    /\ Len(v) # 1

\* a after a[k:] = v
SetSlice(a, k, v) ==
    LET s == SliceBound(k, Len(a))
    IN  [i \in 1..Len(a) |->
            IF i <= s THEN a[i]
            ELSE IF Len(v) = 1 THEN v[1] ELSE v[i - s]]

(***************************************************************************)
(* WellResponse.                                                           *)
(***************************************************************************)

WellResponse__init__(name, response_type, T, S, dist, Q, stream_apportionment, dd_method, depl_method, theis_time, depl_pump_time, depletion_years) ==
    [_drawdown |-> None,
     _depletion |-> None,
     name |-> name,
     response_type |-> response_type,
     T |-> T,
     T_gpd_ft |-> (T * 748) \div 100,
     S |-> S,
     dist |-> dist,
     dd_method |-> dd_method,
     depl_method |-> depl_method,
     depletion_years |-> depletion_years,
     theis_time |-> theis_time,
     depl_pump_time |-> depl_pump_time,
     Q |-> Q,
     stream_apportionment |-> stream_apportionment,
     baseyears |-> None,
     imageyears |-> None]

\* the fields __init__ sets from its arguments
ConfigOf(self) ==
    [name |-> self.name, response_type |-> self.response_type, T |-> self.T,
     T_gpd_ft |-> self.T_gpd_ft, S |-> self.S, dist |-> self.dist,
     dd_method |-> self.dd_method, depl_method |-> self.depl_method,
     depletion_years |-> self.depletion_years, theis_time |-> self.theis_time,
     depl_pump_time |-> self.depl_pump_time, Q |-> self.Q,
     stream_apportionment |-> self.stream_apportionment]

\* _calc_drawdown: [exc, ret]
_calc_drawdown(self) ==
    IF Lower(self.dd_method) \notin ALL_DD_METHODS
    THEN [exc |-> "KeyError", ret |-> None]
    ELSE IF _theis_raises(self.T, self.S, self.theis_time, self.dist, self.Q)
    THEN [exc |-> "ZeroDivisionError", ret |-> None]
    ELSE [exc |-> "",
          ret |-> Some(_theis(self.T, self.S, self.theis_time, self.dist, self.Q))]

(***************************************************************************)
(* An argument of a call of a depletion method: a scalar, or one of the    *)
(* arrays of self.baseyears or self.imageyears (lists, 0-based idx).       *)
(***************************************************************************)
Scalar(v) == [kind |-> "scalar", v |-> v, list |-> "", idx |-> 0]
ArrayRef(list, idx) == [kind |-> "array", v |-> 0, list |-> list, idx |-> idx]

\* the parameter each positional argument is bound to (def _glover, def _walton)
_glover_params(a1, a2, a3, a4, a5) ==
    [f |-> "glover", T |-> a1, S |-> a2, time |-> a3, dist |-> a4, Q |-> a5]
_walton_params(a1, a2, a3, a4, a5) ==
    [f |-> "walton", T |-> a1, S |-> a2, dist |-> a3, time |-> a4, Q |-> a5]

\* ALL_DEPL_METHODS[name](a1, a2, a3, a4, a5): the binding
depl_f_params(name, a1, a2, a3, a4, a5) ==
    IF name = "glover" THEN _glover_params(a1, a2, a3, a4, a5)
    ELSE _walton_params(a1, a2, a3, a4, a5)

\* the element of an argument where the array argument of the call holds v
\* (numpy broadcasts a scalar)
At(x, v) == IF x.kind = "scalar" THEN x.v ELSE v

\* the element of the value of a bound call where its array argument holds v
depl_f_at(b, v) ==
    IF b.f = "glover"
    THEN _glover(At(b.T, v), At(b.S, v), At(b.time, v), At(b.dist, v),
                 At(b.Q, v))
    ELSE _walton(At(b.T, v), At(b.S, v), At(b.dist, v), At(b.time, v),
                 At(b.Q, v))

\* the values of a bound call on the elements 0..n, at index v + 1, worked out
\* once (the series hold day indices of 0..n only)
depl_f_values(b, n) ==
    SubSeq([t \in 1..(n + 1) |-> depl_f_at(b, t - 1)], 1, n + 1)

(***************************************************************************)
(* WellResponse._calc_depletion.                                           *)
(***************************************************************************)

\* the loop over y of lines 149-160, from year y on: the two lists, and the
\* ValueError of a slice assignment that does not fit (the lists then hold the
\* years before y)
RECURSIVE BuildYears(_, _, _, _)
BuildYears(self, y, bys, iys) ==
    IF y >= self.depletion_years
    THEN [exc |-> "", baseyears |-> bys, imageyears |-> iys]
    ELSE
      LET base0   == bys[1]
          zeros   == zeros_like(base0)
          bsrc    == SliceTo(base0, Len(base0) - DaysPerYear * y)
          poffset == DaysPerYear * y + self.depl_pump_time
          isrc    == SliceTo(base0, Len(zeros) - poffset)
      IN  IF \/ SetSliceRaises(zeros, DaysPerYear * y, bsrc)
             \/ SetSliceRaises(zeros, poffset, isrc)
          THEN [exc |-> "ValueError", baseyears |-> bys, imageyears |-> iys]
          ELSE BuildYears(self, y + 1,
                          Append(bys, SetSlice(zeros, DaysPerYear * y, bsrc)),
                          Append(iys, SetSlice(zeros, poffset, isrc)))

\* lines 143-160: the lists self.baseyears and self.imageyears
TimeSeries(self) ==
    LET base0  == arange1(DaysPerYear * self.depletion_years + 1)
        image0 == zeros_like(base0)
        src    == arange1(Len(image0) - self.depl_pump_time + 1)
    IN  IF SetSliceRaises(image0, self.depl_pump_time, src)
        THEN [exc |-> "ValueError", baseyears |-> <<base0>>,
              imageyears |-> <<image0>>]
        ELSE BuildYears(self, 1, <<base0>>,
                        <<SetSlice(image0, self.depl_pump_time, src)>>)

\* self.Q * self.stream_apportionment (a fraction in 1/100)
ScaledQ(self) == (self.Q * self.stream_apportionment[1]) \div 100

\* the calls of lines 164-166 in order: for each year the call on the base
\* series, then the call on the image series
DeplCalls(self, years) ==
    [k \in 1..(2 * years) |->
        depl_f_params(Lower(self.depl_method),
                      Scalar(self.T_gpd_ft), Scalar(self.S), Scalar(self.dist),
                      ArrayRef(IF k % 2 = 1 THEN "baseyears" ELSE "imageyears",
                               (k - 1) \div 2),
                      Scalar(ScaledQ(self)))]

\* element i of the sum over the arrays of a list, from array y (1-based) on,
\* of the method's value on the array
RECURSIVE SumAt(_, _, _, _)
SumAt(values, list, y, i) ==
    IF y > Len(list) THEN 0
    ELSE values[list[y][i] + 1] + SumAt(values, list, y + 1, i)

\* a variant of SumYears that returns depl without subtracting rech: C6
\* depends on the subtraction of line 169
SumYears_without_rech(self, ts, calls, values) ==
    IF ts.exc # ""
    THEN [exc |-> ts.exc, baseyears |-> Some(ts.baseyears),
          imageyears |-> Some(ts.imageyears), calls |-> <<>>, ret |-> None]
    ELSE IF self.stream_apportionment = None
    THEN [exc |-> "TypeError", baseyears |-> Some(ts.baseyears),
          imageyears |-> Some(ts.imageyears), calls |-> <<>>, ret |-> None]
    ELSE [exc |-> "", baseyears |-> Some(ts.baseyears),
          imageyears |-> Some(ts.imageyears), calls |-> calls,
          ret |-> Some([i \in 1..Len(ts.baseyears[1]) |->
                           SumAt(values, ts.baseyears, 1, i)])]

\* lines 162-169, given the result ts of lines 143-160
SumYears(self, ts, calls, values) ==
    IF ts.exc # ""
    THEN [exc |-> ts.exc, baseyears |-> Some(ts.baseyears),
          imageyears |-> Some(ts.imageyears), calls |-> <<>>, ret |-> None]
    ELSE IF self.stream_apportionment = None
    THEN [exc |-> "TypeError", baseyears |-> Some(ts.baseyears),
          imageyears |-> Some(ts.imageyears), calls |-> <<>>, ret |-> None]
    ELSE [exc |-> "", baseyears |-> Some(ts.baseyears),
          imageyears |-> Some(ts.imageyears), calls |-> calls,
          ret |-> Some([i \in 1..Len(ts.baseyears[1]) |->
                           SumAt(values, ts.baseyears, 1, i)
                           - SumAt(values, ts.imageyears, 1, i)])]

\* the calls of a calculation whose lists are those of ts, and their values
Superpose(self, ts, calls) ==
    SumYears(self, ts, calls,
             depl_f_values(calls[1], Len(ts.baseyears[1])))

\* _calc_depletion: [exc, baseyears, imageyears, calls, ret]; baseyears and
\* imageyears are what the attributes hold when it returns or raises
_calc_depletion_from(self, ts) ==
    Superpose(self, ts, DeplCalls(self, Len(ts.baseyears)))

_calc_depletion(self) ==
    IF Lower(self.depl_method) \notin ALL_DEPL_METHODS
    THEN [exc |-> "KeyError", baseyears |-> self.baseyears,
          imageyears |-> self.imageyears, calls |-> <<>>, ret |-> None]
    ELSE _calc_depletion_from(self, TimeSeries(self))

(***************************************************************************)
(* dict.                                                                   *)
(***************************************************************************)
Item(k, v) == [key |-> k, val |-> v]
Keys(d) == [i \in 1..Len(d) |-> d[i].key]
KeySet(d) == {d[i].key : i \in 1..Len(d)}
GetItem(d, k) == d[CHOOSE i \in 1..Len(d) : d[i].key = k].val
SetItem(d, k, v) ==
    IF k \in KeySet(d)
    THEN [i \in 1..Len(d) |-> IF d[i].key = k THEN Item(k, v) ELSE d[i]]
    ELSE Append(d, Item(k, v))

(***************************************************************************)
(* State.                                                                  *)
(*   args       the arguments of the constructor call                      *)
(*   well       None, or Some(the Well object)                             *)
(*   responses  the WellResponse objects, by reference                     *)
(*   outcome    the last operation: its name, its object (0: the Well) and *)
(*              the exception it raised ("" when it returned)              *)
(*   ran        the calculations run by the last operation, each           *)
(*              <<reference, "drawdown" | "depletion">>                    *)
(*   calls      the calls of a depletion method made by the last           *)
(*              operation, each [obj, call]                                *)
(***************************************************************************)
VARIABLES args, well, responses, outcome, ran, calls

vars == <<args, well, responses, outcome, ran, calls>>

(***************************************************************************)
(* The properties of WellResponse: the object after the read, the          *)
(* exception, whether the calculation ran, the calls it made.               *)
(***************************************************************************)
\* the property, given the result c of the calculation
Memo_drawdown(self, c) ==
    [self |-> IF c.exc = "" THEN [self EXCEPT !._drawdown = c.ret] ELSE self,
     exc |-> c.exc, ran |-> TRUE, calls |-> <<>>]

WellResponse_drawdown(self) ==
    IF self._drawdown = None
    THEN Memo_drawdown(self, _calc_drawdown(self))
    ELSE [self |-> self, exc |-> "", ran |-> FALSE, calls |-> <<>>]

\* the property, given the result c of the calculation (which has set
\* self.baseyears and self.imageyears)
Memo_depletion(self, c) ==
    [self |-> [self EXCEPT !._depletion = c.ret,
                           !.baseyears = c.baseyears,
                           !.imageyears = c.imageyears],
     exc |-> c.exc, ran |-> TRUE, calls |-> c.calls]

\* a variant of the depletion property without the test of the slot: C4
\* depends on the test of line 180
WellResponse_depletion_untested(self) ==
    Memo_depletion(self, _calc_depletion(self))

WellResponse_depletion(self) ==
    IF self._depletion = None
    THEN Memo_depletion(self, _calc_depletion(self))
    ELSE [self |-> self, exc |-> "", ran |-> FALSE, calls |-> <<>>]

\* the calls of one object, tagged with its reference
Tagged(r, cs) == [k \in 1..Len(cs) |-> [obj |-> r, call |-> cs[k]]]

\* the step of a read of a property of response r, given its result rd
ResponseRead(r, op, slot, rd) ==
    /\ responses' = [responses EXCEPT ![r] = rd.self]
    /\ outcome' = [op |-> op, obj |-> r, exc |-> rd.exc]
    /\ ran' = IF rd.ran THEN {<<r, slot>>} ELSE {}
    /\ calls' = Tagged(r, rd.calls)
    /\ UNCHANGED <<args, well>>

ReadResponseDrawdown(r) ==
    /\ r \in DOMAIN responses
    /\ ResponseRead(r, "WellResponse.drawdown", "drawdown",
                    WellResponse_drawdown(responses[r]))

ReadResponseDepletion(r) ==
    /\ r \in DOMAIN responses
    /\ ResponseRead(r, "WellResponse.depletion", "depletion",
                    WellResponse_depletion(responses[r]))

(***************************************************************************)
(* Well.                                                                   *)
(***************************************************************************)

\* the assert of line 228
StreamNamesConsistent(stream_dist, stream_apportionment) ==
    Cardinality(KeySet(stream_dist) \ KeySet(stream_apportionment)) = 0

\* lines 243-245: the WellResponse of item cs (1-based) of stream_dist;
\* depletion_years is not passed and takes the default of WellResponse
StreamResponse(a, cs) ==
    WellResponse__init__(a.stream_dist[cs].key, "stream", a.T, a.S,
                         a.stream_dist[cs].val, a.Q,
                         Some(GetItem(a.stream_apportionment,
                                      a.stream_dist[cs].key)),
                         "Theis", "walton", DefaultTheisTime,
                         a.depl_pump_time, DefaultDepletionYears)

\* lines 249-251: the WellResponse of item cw (1-based) of drawdown_dist
DrawdownResponse(a, cw) ==
    WellResponse__init__(a.drawdown_dist[cw].key, "well", a.T, a.S,
                         a.drawdown_dist[cw].val, a.Q, None, "theis",
                         "Walton", a.theis_dd_time, DefaultDeplPumpTime,
                         a.depletion_years)

\* the objects Well.__init__ creates: the stream responses, then the drawdown
\* responses
NewResponses(a) ==
    [cs \in 1..Len(a.stream_dist) |-> StreamResponse(a, cs)]
    \o [cw \in 1..Len(a.drawdown_dist) |-> DrawdownResponse(a, cw)]

\* the Well object; stream_responses and drawdown_responses map cs + 1 and
\* cw + 1 to the references of the objects
NewWell(a) ==
    [_depletion |-> None,
     _drawdown |-> None,
     stream_dist |-> a.stream_dist,
     drawdown_dist |-> a.drawdown_dist,
     T |-> a.T,
     S |-> a.S,
     depletion_years |-> a.depletion_years,
     theis_dd_time |-> a.theis_dd_time,
     depl_pump_time |-> a.depl_pump_time,
     Q |-> a.Q,
     stream_apportionment |-> a.stream_apportionment,
     stream_responses |-> [cs \in 1..Len(a.stream_dist) |-> Item(cs, cs)],
     drawdown_responses |->
         [cw \in 1..Len(a.drawdown_dist) |->
             Item(cw, Len(a.stream_dist) + cw)],
     well_status |-> a.well_status,
     stream_response_names |-> <<>>,
     drawdown_response_names |-> Keys(a.drawdown_dist)]

Well__init__ ==
    /\ outcome.op = ""
    /\ args # None
    /\ IF StreamNamesConsistent(args[1].stream_dist,
                                args[1].stream_apportionment)
       THEN /\ well' = Some(NewWell(args[1]))
            /\ responses' = NewResponses(args[1])
            /\ outcome' = [op |-> "Well.__init__", obj |-> 0, exc |-> ""]
       ELSE /\ well' = None
            /\ responses' = <<>>
            /\ outcome' = [op |-> "Well.__init__", obj |-> 0,
                           exc |-> "AssertionError"]
    /\ ran' = {}
    /\ calls' = <<>>
    /\ UNCHANGED args

\* the loops of Well.drawdown and Well.depletion from item k of the dict of
\* responses on, given the result rd of the property of item k's response r:
\* [d, responses, exc, ran, calls].  An exception leaves the loop with d as it is
RECURSIVE ResponsesLoop(_, _, _, _, _, _, _)
LoopStep(slot, items, k, d, rs, ranSoFar, callsSoFar, r, rd) ==
    IF rd.exc # ""
    THEN [d |-> d, responses |-> [rs EXCEPT ![r] = rd.self], exc |-> rd.exc,
          ran |-> IF rd.ran THEN ranSoFar \cup {<<r, slot>>} ELSE ranSoFar,
          calls |-> callsSoFar \o Tagged(r, rd.calls)]
    ELSE ResponsesLoop(slot, items, k + 1,
                       SetItem(d, rd.self.name,
                               IF slot = "drawdown" THEN rd.self._drawdown[1]
                               ELSE rd.self._depletion[1]),
                       [rs EXCEPT ![r] = rd.self],
                       IF rd.ran THEN ranSoFar \cup {<<r, slot>>} ELSE ranSoFar,
                       callsSoFar \o Tagged(r, rd.calls))

ResponsesLoop(slot, items, k, d, rs, ranSoFar, callsSoFar) ==
    IF k > Len(items)
    THEN [d |-> d, responses |-> rs, exc |-> "", ran |-> ranSoFar,
          calls |-> callsSoFar]
    ELSE LoopStep(slot, items, k, d, rs, ranSoFar, callsSoFar, items[k].val,
                  IF slot = "drawdown"
                  THEN WellResponse_drawdown(rs[items[k].val])
                  ELSE WellResponse_depletion(rs[items[k].val]))

\* self._drawdown = {} and the loop of lines 256-258
Fill(l) == [d |-> Some(l.d), responses |-> l.responses, exc |-> l.exc,
            ran |-> l.ran, calls |-> l.calls]

\* Well.drawdown: [d, responses, exc, ran, calls]; d is self._drawdown afterwards
Well_drawdown(self, rs) ==
    IF self._drawdown = None
    THEN Fill(ResponsesLoop("drawdown", self.drawdown_responses, 1, <<>>, rs,
                            {}, <<>>))
    ELSE [d |-> self._drawdown, responses |-> rs, exc |-> "", ran |-> {},
          calls |-> <<>>]

\* Well.depletion: [d, responses, exc, ran, calls]; d is self._depletion
\* afterwards
Well_depletion(self, rs) ==
    IF self._depletion = None
    THEN Fill(ResponsesLoop("depletion", self.stream_responses, 1, <<>>, rs,
                            {}, <<>>))
    ELSE [d |-> self._depletion, responses |-> rs, exc |-> "", ran |-> {},
          calls |-> <<>>]

\* a variant of WellRead that assigns the slot of the other output: C10
\* depends on each property assigning its own slot
WellRead_other_slot(op, slot, self, rd) ==
    /\ well' = Some(IF slot = "drawdown" THEN [self EXCEPT !._depletion = rd.d]
                    ELSE [self EXCEPT !._drawdown = rd.d])
    /\ responses' = rd.responses
    /\ outcome' = [op |-> op, obj |-> 0, exc |-> rd.exc]
    /\ ran' = rd.ran
    /\ calls' = rd.calls
    /\ UNCHANGED args

\* the step of a read of a property of the Well self, given its result rd
WellRead(op, slot, self, rd) ==
    /\ well' = Some(IF slot = "drawdown" THEN [self EXCEPT !._drawdown = rd.d]
                    ELSE [self EXCEPT !._depletion = rd.d])
    /\ responses' = rd.responses
    /\ outcome' = [op |-> op, obj |-> 0, exc |-> rd.exc]
    /\ ran' = rd.ran
    /\ calls' = rd.calls
    /\ UNCHANGED args

ReadWellDrawdown ==
    /\ well # None
    /\ WellRead("Well.drawdown", "drawdown", well[1],
                Well_drawdown(well[1], responses))

ReadWellDepletion ==
    /\ well # None
    /\ WellRead("Well.depletion", "depletion", well[1],
                Well_depletion(well[1], responses))

(***************************************************************************)
(* Inputs.                                                                 *)
(***************************************************************************)
\* T = 100 ft^2/d, S = 0.2, Q = 10000 ft^3/d
InputT == 100 * 100
InputS == 2 * 100
InputQ == 100 * 100

MethodNames == {"Walton", "glover"}
PumpTimes == {DefaultDeplPumpTime, 0, 100, DaysPerYear, 400}
TheisTimes == {DefaultTheisTime, 0, 10}
Years == 1..MaxYears

(***************************************************************************)
(* One WellResponse, constructed directly.                                 *)
(***************************************************************************)
InitResponse ==
    /\ args = None
    /\ well = None
    /\ \E m \in MethodNames, p \in PumpTimes, y \in Years, t \in TheisTimes :
          responses = <<WellResponse__init__("a", "stream", InputT, InputS, 300,
                                             InputQ, Some(100), "Theis", m, t,
                                             p, y)>>
    /\ outcome = [op |-> "", obj |-> 0, exc |-> ""]
    /\ ran = {}
    /\ calls = <<>>

NextResponse ==
    \/ \E r \in DOMAIN responses : ReadResponseDrawdown(r)
    \/ \E r \in DOMAIN responses : ReadResponseDepletion(r)

SpecResponse == InitResponse /\ [][NextResponse]_vars

(***************************************************************************)
(* One Well: the constructor call, then reads of its properties and of     *)
(* the properties of its WellResponse objects.  A response that a Well     *)
(* owns is read for the output its response_type is for (depletion of a    *)
(* "stream", drawdown of a "well"); SpecResponse reads both outputs of a   *)
(* response.  The stream responses of a Well hold series of                *)
(* DaysPerYear * DefaultDepletionYears days, so the inputs pair a pumping  *)
(* time with a drawdown time instead of crossing them.                     *)
(***************************************************************************)
StreamDists == {<<Item("a", 300)>>, <<Item("a", 300), Item("b", 400)>>}
Apportionments == {<<Item("a", 100)>>, <<Item("b", 100)>>,
                   <<Item("a", 60), Item("b", 40)>>}
DrawdownDists == {<<Item("w", 200)>>}
WellTimes == {[depl_pump_time |-> 100, theis_dd_time |-> 10],
              [depl_pump_time |-> WellDefaultDeplPumpTime, theis_dd_time |-> 10],
              [depl_pump_time |-> WellDefaultDeplPumpTime, theis_dd_time |-> 0]}

WellArgs ==
    {[T |-> InputT, S |-> InputS, Q |-> InputQ, depletion_years |-> y,
      theis_dd_time |-> t.theis_dd_time, depl_pump_time |-> t.depl_pump_time,
      stream_dist |-> sd, drawdown_dist |-> dd, stream_apportionment |-> sa,
      well_status |-> "pending"] :
        y \in Years, t \in WellTimes, sd \in StreamDists,
        dd \in DrawdownDists, sa \in Apportionments}

Init ==
    /\ args \in {Some(a) : a \in WellArgs}
    /\ well = None
    /\ responses = <<>>
    /\ outcome = [op |-> "", obj |-> 0, exc |-> ""]
    /\ ran = {}
    /\ calls = <<>>

Next ==
    \/ Well__init__
    \/ ReadWellDrawdown
    \/ ReadWellDepletion
    \/ \E r \in DOMAIN responses :
          responses[r].response_type = "well" /\ ReadResponseDrawdown(r)
    \/ \E r \in DOMAIN responses :
          responses[r].response_type = "stream" /\ ReadResponseDepletion(r)

Spec == Init /\ [][Next]_vars

(***************************************************************************)
(* Properties.                                                             *)
(***************************************************************************)
Reads == {"WellResponse.drawdown", "WellResponse.depletion",
          "Well.drawdown", "Well.depletion"}
DrawdownReads == {"WellResponse.drawdown", "Well.drawdown"}
DepletionReads == {"WellResponse.depletion", "Well.depletion"}

\* the operation has returned, not raised
Returned(op) == outcome.op = op /\ outcome.exc = ""

\* C1: constructing a Well fails, with no WellResponse created, whenever the
\* stream names of stream_dist and of stream_apportionment are not the same set.
C1_MismatchFails ==
    (/\ outcome.op # ""
     /\ KeySet(args[1].stream_dist) # KeySet(args[1].stream_apportionment))
    => (well = None /\ responses = <<>>)

\* C2: a read of well.depletion returns, for each stream, a series of
\* 365 * depletion_years entries, depletion_years being that of the Well.
C2_SeriesLengthOfWell ==
    Returned("Well.depletion")
    => \A k \in 1..Len(well[1]._depletion[1]) :
          Len(well[1]._depletion[1][k].val)
              = DaysPerYear * well[1].depletion_years

\* C3: whatever depl_pump_time is, a read of depletion of a WellResponse
\* completes and returns a series of 365 * depletion_years entries.
C3_AlwaysCompletes ==
    outcome.op = "WellResponse.depletion"
    => /\ outcome.exc = ""
       /\ Len(responses[outcome.obj]._depletion[1])
              = DaysPerYear * responses[outcome.obj].depletion_years

\* C4: once an output has been read with success its calculation never runs
\* again, its memo slot never changes and later reads return it; a read of one
\* output neither runs the calculation of the other nor changes its slot.
C4_ComputedOnce ==
    [][/\ \A r \in DOMAIN responses :
            /\ responses[r]._drawdown # None
               => /\ responses'[r]._drawdown = responses[r]._drawdown
                  /\ <<r, "drawdown">> \notin ran'
                  /\ (outcome'.op = "WellResponse.drawdown" /\ outcome'.obj = r)
                     => outcome'.exc = ""
            /\ responses[r]._depletion # None
               => /\ responses'[r]._depletion = responses[r]._depletion
                  /\ <<r, "depletion">> \notin ran'
                  /\ (outcome'.op = "WellResponse.depletion" /\ outcome'.obj = r)
                     => outcome'.exc = ""
            /\ outcome'.op \in DrawdownReads
               => /\ responses'[r]._depletion = responses[r]._depletion
                  /\ <<r, "depletion">> \notin ran'
            /\ outcome'.op \in DepletionReads
               => /\ responses'[r]._drawdown = responses[r]._drawdown
                  /\ <<r, "drawdown">> \notin ran'
       /\ (well # None /\ well[1]._drawdown # None)
          => /\ well'[1]._drawdown = well[1]._drawdown
             /\ outcome'.op = "Well.drawdown"
                => (outcome'.exc = "" /\ ran' = {})
       /\ (well # None /\ well[1]._depletion # None)
          => /\ well'[1]._depletion = well[1]._depletion
             /\ outcome'.op = "Well.depletion"
                => (outcome'.exc = "" /\ ran' = {})
       /\ (well # None /\ outcome'.op \in DrawdownReads)
          => well'[1]._depletion = well[1]._depletion
       /\ (well # None /\ outcome'.op \in DepletionReads)
          => well'[1]._drawdown = well[1]._drawdown
      ]_vars

\* a read of well.depletion answered from the memo slot, which holds the
\* series of every stream
C4_Witness ==
    /\ Returned("Well.depletion")
    /\ ran = {}
    /\ Len(well[1]._depletion[1]) = 2
    /\ \A r \in {1, 2} : responses[r]._depletion # None

\* C5: a read of well.depletion (well.drawdown) either fails or returns a
\* mapping with an entry for every stream (observation point) of the Well.
C5_FailsOrComplete ==
    /\ Returned("Well.depletion")
       => KeySet(well[1]._depletion[1]) = KeySet(well[1].stream_dist)
    /\ Returned("Well.drawdown")
       => KeySet(well[1]._drawdown[1]) = KeySet(well[1].drawdown_dist)

\* the case of C6: one year, no delay, the whole of Q, and the series read
C6_Case ==
    /\ responses[1].depletion_years = 1
    /\ responses[1].depl_pump_time = 0
    /\ responses[1].stream_apportionment = Some(100)
    /\ responses[1]._depletion # None

\* C6 as stated: the series is positive on day 1 and, on day 365, positive and
\* below Q.
C6_PositiveBelowQ ==
    C6_Case
    => /\ responses[1]._depletion[1][1] > 0
       /\ responses[1]._depletion[1][DaysPerYear] > 0
       /\ responses[1]._depletion[1][DaysPerYear] < responses[1].Q * FxOne

\* C6 (amended): with depletion_years = 1, depl_pump_time = 0 and
\* apportionment = 1.0 the returned series has 365 entries and every one is 0:
\* the image series equals the base series, so depletion minus recharge vanishes.
C6_ZeroWithoutDelay ==
    C6_Case
    => /\ Len(responses[1]._depletion[1]) = DaysPerYear
       /\ \A i \in 1..DaysPerYear : responses[1]._depletion[1][i] = 0

C6_Witness ==
    /\ C6_Case
    /\ Returned("WellResponse.depletion")
    /\ ran = {<<1, "depletion">>}
    /\ Lower(responses[1].depl_method) = "walton"

\* the array of the object's lists a call argument stands for
ArrayOf(x, self) ==
    IF x.list = "baseyears" THEN self.baseyears[1][x.idx + 1]
    ELSE self.imageyears[1][x.idx + 1]

\* C7: no time that is <= 0 is passed to the depletion method.
C7_TimesPositive ==
    \A k \in 1..Len(calls) :
        calls[k].call.time.kind = "array"
        => \A i \in 1..Len(ArrayOf(calls[k].call.time, responses[calls[k].obj])) :
              ArrayOf(calls[k].call.time, responses[calls[k].obj])[i] > 0

\* C8: every call of the depletion method binds a day-index series to time,
\* the distance to dist and Q times the apportionment to Q.
C8_Binding ==
    \A k \in 1..Len(calls) :
        /\ calls[k].call.time.kind = "array"
        /\ calls[k].call.dist = Scalar(responses[calls[k].obj].dist)
        /\ calls[k].call.Q = Scalar(ScaledQ(responses[calls[k].obj]))

\* the case of C9: the lists have been built for a pumping time within the
\* year
C9_Case ==
    /\ responses[1].baseyears # None
    /\ responses[1].depl_pump_time >= 0
    /\ DaysPerYear * (responses[1].depletion_years - 1)
           + responses[1].depl_pump_time
       <= DaysPerYear * responses[1].depletion_years

\* C9: for 0 <= depl_pump_time with 365 (depletion_years - 1) + depl_pump_time
\* <= N = 365 depletion_years, there are depletion_years (base, image) pairs of
\* length N; at 0-based position i, base_y is 0 before 365 y and i - 365 y + 1
\* from there, image_y is 0 before 365 y + depl_pump_time and
\* i - 365 y - depl_pump_time + 1 from there.
C9_Series ==
    C9_Case
    => /\ Len(responses[1].baseyears[1]) = responses[1].depletion_years
       /\ Len(responses[1].imageyears[1]) = responses[1].depletion_years
       /\ \A y \in 0..(responses[1].depletion_years - 1) :
            /\ Len(responses[1].baseyears[1][y + 1])
                   = DaysPerYear * responses[1].depletion_years
            /\ Len(responses[1].imageyears[1][y + 1])
                   = DaysPerYear * responses[1].depletion_years
            /\ \A i \in 0..(DaysPerYear * responses[1].depletion_years - 1) :
                 /\ responses[1].baseyears[1][y + 1][i + 1]
                        = IF i < DaysPerYear * y THEN 0
                          ELSE i - DaysPerYear * y + 1
                 /\ responses[1].imageyears[1][y + 1][i + 1]
                        = IF i < DaysPerYear * y + responses[1].depl_pump_time
                          THEN 0
                          ELSE i - DaysPerYear * y
                                 - responses[1].depl_pump_time + 1

C9_Witness ==
    /\ C9_Case
    /\ responses[1].depletion_years = 2
    /\ responses[1].depl_pump_time = 100
    /\ Returned("WellResponse.depletion")

\* the attributes of a Well other than its two memo slots
WellConfigOf(self) ==
    [stream_dist |-> self.stream_dist, drawdown_dist |-> self.drawdown_dist,
     T |-> self.T, S |-> self.S, depletion_years |-> self.depletion_years,
     theis_dd_time |-> self.theis_dd_time,
     depl_pump_time |-> self.depl_pump_time, Q |-> self.Q,
     stream_apportionment |-> self.stream_apportionment,
     stream_responses |-> self.stream_responses,
     drawdown_responses |-> self.drawdown_responses,
     well_status |-> self.well_status,
     stream_response_names |-> self.stream_response_names,
     drawdown_response_names |-> self.drawdown_response_names]

\* a read leaves the fields __init__ set, and the slot of the other output, as
\* they were
FrameOfRead ==
    outcome'.op \in Reads
    => /\ \A r \in DOMAIN responses :
            /\ ConfigOf(responses'[r]) = ConfigOf(responses[r])
            /\ outcome'.op \in DrawdownReads
               => /\ responses'[r]._depletion = responses[r]._depletion
                  /\ responses'[r].baseyears = responses[r].baseyears
                  /\ responses'[r].imageyears = responses[r].imageyears
            /\ outcome'.op \in DepletionReads
               => responses'[r]._drawdown = responses[r]._drawdown
       /\ well # None
          => /\ WellConfigOf(well'[1]) = WellConfigOf(well[1])
             /\ outcome'.op \in DrawdownReads
                => well'[1]._depletion = well[1]._depletion
             /\ outcome'.op \in DepletionReads
                => well'[1]._drawdown = well[1]._drawdown

\* C10 as stated: a read changes no attribute of the object other than the
\* memo slot of the output read.
C10_OnlyTheSlot ==
    [][/\ FrameOfRead
       /\ outcome'.op \in Reads
          => \A r \in DOMAIN responses :
                /\ responses'[r].baseyears = responses[r].baseyears
                /\ responses'[r].imageyears = responses[r].imageyears
      ]_vars

\* C10 (amended): a read changes no attribute of the object other than the
\* memo slot of the output read and, for a read of depletion, the attributes
\* baseyears and imageyears that _calc_depletion sets on the WellResponse; all
\* the fields set by the constructor are as before.
C10_SlotAndSeries == [][FrameOfRead]_vars

\* a read of well.depletion that has run the calculation of a response
C10_Witness ==
    /\ Returned("Well.depletion")
    /\ ran # {}
    /\ \E r \in DOMAIN responses : responses[r].baseyears # None

====
